---------------------------- MODULE Spec2Model ----------------------------
(***************************************************************************)
(* A model of mr/fitting.py: parse_output, fit, fit_powerlaw, bound_fit.   *)
(*                                                                         *)
(* A call of fit or bound_fit is a sequence of steps: the entry (option,   *)
(* dropna, parameter index), then per column the start of the solver, the  *)
(* solver's evaluations of the err closure, and the solver's return with   *)
(* parse_output and the store into fits, then the exit.  The least-squares *)
(* solver (scipy.optimize.leastsq) is outside the repository: it returns   *)
(* any solution of the right length with any status code (status 0 when it *)
(* is handed fewer residuals than parameters), and is the same function of *)
(* the residual function and the start vector every time.                  *)
(***************************************************************************)
EXTENDS Integers, Sequences, FiniteSets

(***************************************************************************)
(* Bounds of the model.                                                    *)
(***************************************************************************)
MaxRows == 2

MaxCols == 2

MaxParams == 2

MaxIer == 5

(***************************************************************************)
(* Floating point values: a rational n/d (d > 0, lowest terms), NaN, +inf  *)
(* or -inf; and e^(n/d) for a rational n/d other than 0, which np.exp      *)
(* yields and which is never a rational.                                   *)
(***************************************************************************)
Abs(i) == IF i < 0 THEN -i ELSE i

RECURSIVE GCD(_, _)
GCD(a, b) == IF b = 0 THEN a ELSE GCD(b, a % b)

RECURSIVE IntPow(_, _)
IntPow(b, e) == IF e = 0 THEN 1 ELSE b * IntPow(b, e - 1)

NaN == [k |-> "nan", n |-> 0, d |-> 1]

PosInf == [k |-> "inf", n |-> 0, d |-> 1]

NegInf == [k |-> "ninf", n |-> 0, d |-> 1]

Frac(n, d) ==
    LET s == IF d < 0 THEN -1 ELSE 1
        g == GCD(Abs(n), Abs(d))
    IN  [k |-> "num", n |-> (s * n) \div g, d |-> (s * d) \div g]

Num(i) == [k |-> "num", n |-> i, d |-> 1]

Sign(v) ==
    CASE v.k = "inf" -> 1
      [] v.k = "ninf" -> -1
      [] v.k = "num" -> (IF v.n > 0 THEN 1 ELSE IF v.n < 0 THEN -1 ELSE 0)
      [] OTHER -> 0

Signed(s) == IF s > 0 THEN PosInf ELSE NegInf

Neg(v) ==
    CASE v.k = "num" -> [v EXCEPT !.n = -v.n]
      [] v.k = "inf" -> NegInf
      [] v.k = "ninf" -> PosInf
      [] OTHER -> NaN

Add(a, b) ==
    CASE a.k = "nan" \/ b.k = "nan" -> NaN
      [] a.k = "num" /\ b.k = "num" -> Frac(a.n * b.d + b.n * a.d, a.d * b.d)
      [] a.k = "num" -> b
      [] b.k = "num" -> a
      [] a.k = b.k -> a
      [] OTHER -> NaN

Sub(a, b) == Add(a, Neg(b))

Mul(a, b) ==
    CASE a.k = "nan" \/ b.k = "nan" -> NaN
      [] a.k = "num" /\ b.k = "num" -> Frac(a.n * b.n, a.d * b.d)
      [] Sign(a) * Sign(b) = 0 -> NaN
      [] OTHER -> Signed(Sign(a) * Sign(b))

Div(a, b) ==
    CASE a.k = "nan" \/ b.k = "nan" -> NaN
      [] a.k = "num" /\ b.k = "num" ->
            IF b.n # 0 THEN Frac(a.n * b.d, a.d * b.n)
            ELSE IF a.n = 0 THEN NaN ELSE Signed(Sign(a))
      [] b.k = "num" -> IF Sign(b) = 0 THEN a ELSE Signed(Sign(a) * Sign(b))
      [] a.k = "num" -> Num(0)
      [] OTHER -> NaN

\* x ** e for an integer exponent e, as numpy raises a float to a power.
Pow(x, e) ==
    CASE e = 0 -> Num(1)
      [] x.k = "nan" -> NaN
      [] x.k = "num" /\ x.n = 0 -> IF e < 0 THEN PosInf ELSE Num(0)
      [] x.k = "num" /\ e > 0 -> Frac(IntPow(x.n, e), IntPow(x.d, e))
      [] x.k = "num" -> Frac(IntPow(x.d, -e), IntPow(x.n, -e))
      [] e < 0 -> Num(0)
      [] x.k = "ninf" /\ e % 2 = 1 -> NegInf
      [] OTHER -> PosInf

RECURSIVE IntLog2(_)
IntLog2(i) == IF i = 1 THEN 0 ELSE 1 + IntLog2(i \div 2)

\* np.log, in units of ln 2: every positive number of the model is a power
\* of two, whose logarithm is a whole multiple of ln 2.  Both residuals of a
\* log-space fit are in that unit.
Log(v) ==
    CASE v.k = "nan" \/ v.k = "ninf" -> NaN
      [] v.k = "inf" -> PosInf
      [] v.n < 0 -> NaN
      [] v.n = 0 -> NegInf
      [] OTHER -> Num(IntLog2(v.n) - IntLog2(v.d))

\* np.exp: e^0 = 1, and e^q for a rational q # 0 is kept as such.
Exp(v) ==
    CASE v.k = "nan" -> NaN
      [] v.k = "inf" -> PosInf
      [] v.k = "ninf" -> Num(0)
      [] v.n = 0 -> Num(1)
      [] OTHER -> [k |-> "exp", n |-> v.n, d |-> v.d]

RECURSIVE SeqSum(_)
SeqSum(s) == IF s = <<>> THEN Num(0) ELSE Add(Head(s), SeqSum(Tail(s)))

(***************************************************************************)
(* The caller's data: a DataFrame of nrows rows and ncols named columns,   *)
(* or a Series (one unnamed column), indexed by the exogenous variable.    *)
(* Row r has index value IndexVal(r); a cell holds a number, NaN or inf.   *)
(* The frames of the model have at most one missing cell.                  *)
(***************************************************************************)
StrLabel(s) == [str |-> s]

IntLabel(i) == [int |-> i]

ColNames == <<"a", "b", "c", "d">>

ParamNames == <<"scale", "rate", "offset", "bias">>

IndexVal(r) == IF r = 1 THEN Num(0) ELSE Num(IntPow(2, r - 2))

DataVal(r, c) == Num(IntPow(2, (r + c) % 3))

\* A frame of R rows and C columns in which at most one cell is missing:
\* hole is <<>> or <<r, c, v>>, the cell of row r and column c holding v.
Holes(R, C) == {<<>>} \cup ((1..R) \X (1..C) \X {NaN, PosInf})

Frame(R, C, hole) ==
    [nrows |-> R, ncols |-> C, series |-> FALSE,
     columns |-> [c \in 1..C |-> StrLabel(ColNames[c])],
     cell |-> [rc \in (1..R) \X (1..C) |->
                 IF hole # <<>> /\ rc = <<hole[1], hole[2]>> THEN hole[3]
                 ELSE DataVal(rc[1], rc[2])]]

Frames(R, C) == { Frame(R, C, hole) : hole \in Holes(R, C) }

SeriesOf(frame) == [frame EXCEPT !.series = TRUE, !.columns = <<IntLabel(0)>>]

Inputs ==
    LET frames == UNION { Frames(R, C) : R \in 1..MaxRows, C \in 1..MaxCols }
    IN  frames \cup { SeriesOf(f) : f \in { g \in frames : g.ncols = 1 } }

\* The single-column DataFrame data[[c]].
OneColumn(tab, c) ==
    [nrows |-> tab.nrows, ncols |-> 1, series |-> FALSE,
     columns |-> <<tab.columns[c]>>,
     cell |-> [rc \in (1..tab.nrows) \X {1} |-> tab.cell[<<rc[1], c>>]]]

(***************************************************************************)
(* pandas: isnull under the use_inf_as_null option, dropna, fillna, mean.  *)
(***************************************************************************)
IsNull(v, opt) == v.k = "nan" \/ (opt /\ v.k \in {"inf", "ninf"})

\* A slip: dropna(how='all'), which drops a row only when every column is null.
DropNaHowAll(tab, opt) ==
    LET Keep(r) == \E c \in 1..tab.ncols : ~IsNull(tab.cell[<<r, c>>], opt)
    IN  SelectSeq([r \in 1..tab.nrows |-> r], Keep)

\* data.dropna(): the rows (in order) with no null in any column.
DropNa(tab, opt) ==
    LET Keep(r) == \A c \in 1..tab.ncols : ~IsNull(tab.cell[<<r, c>>], opt)
    IN  SelectSeq([r \in 1..tab.nrows |-> r], Keep)

FillNa(e, value, opt) ==
    [i \in 1..Len(e) |-> IF IsNull(e[i], opt) THEN value ELSE e[i]]

Mean(e, opt) ==
    LET NotNull(v) == ~IsNull(v, opt)
        valid == SelectSeq(e, NotNull)
    IN  IF valid = <<>> THEN NaN ELSE Div(SeqSum(valid), Num(Len(valid)))

\* data[col] of the DataFrame that keeps the rows `rows` of tab.
Column(tab, rows, c) == [i \in 1..Len(rows) |-> tab.cell[<<rows[i], c>>]]

\* data_index = Series(data.index.values, index=data.index, dtype=float64)
DataIndex(rows) == [i \in 1..Len(rows) |-> IndexVal(rows[i])]

(***************************************************************************)
(* What the caller supplies: the guess (a Series with an Index of labels,  *)
(* a list, whose .index is a method and no Index, or an ndarray, which has *)
(* no .index), the model function, and the transform pair of bound_fit.    *)
(***************************************************************************)
GuessKinds == {"Series", "list", "ndarray"}

Guess(kind, n) ==
    [kind |-> kind,
     index |-> IF kind = "Series" THEN [i \in 1..n |-> StrLabel(ParamNames[i])]
               ELSE <<>>,
     values |-> [i \in 1..n |-> 1]]

Guesses == { Guess(kind, n) : kind \in GuessKinds, n \in 1..MaxParams }

\* func(x, *params) = params[0] * x ** params[-1]
Func(x, params) == Mul(Num(params[1]), Pow(x, params[Len(params)]))

Offset(d) == IF d = <<>> THEN 0 ELSE d[1].n

\* untransform(data[col], *params) and transform(data[col], *params): a
\* shift by the column's first value, each the inverse of the other.
Untransform(d, params) == [i \in 1..Len(params) |-> params[i] - Offset(d)]

Transform(d, params) == [i \in 1..Len(params) |-> params[i] + Offset(d)]

ParamVals == {-1, 2}

\* The parameter vectors the solver tries and returns.
Grid(n) == { [i \in 1..n |-> v] : v \in ParamVals }

(***************************************************************************)
(* fit.err and bound_fit.err: the residual vector the solver is handed for *)
(* the parameter vector params, with the rows the model function was       *)
(* evaluated at and the residual before the masking.                       *)
(***************************************************************************)
RawResidual(tab, rows, c, params, lr, ex) ==
    LET x == IF ex THEN Column(tab, rows, c) ELSE DataIndex(rows)
        y == IF ex THEN DataIndex(rows) ELSE Column(tab, rows, c)
        f == [i \in 1..Len(rows) |-> Func(x[i], params)]
    IN  [i \in 1..Len(rows) |->
            IF lr THEN Sub(Log(y[i]), Log(f[i])) ELSE Sub(y[i], f[i])]

FitErr(tab, rows, c, params, lr, ex, opt) ==
    LET raw == RawResidual(tab, rows, c, params, lr, ex)
    IN  [rows |-> rows, raw |-> raw, e |-> FillNa(raw, Num(0), opt)]

BoundFitErr(tab, rows, c, params, lr, ex, opt) ==
    LET raw == RawResidual(tab, rows, c, params, lr, ex)
    IN  [rows |-> rows, raw |-> raw,
         e |-> IF lr THEN FillNa(raw, Mul(Num(2), Mean(raw, opt)), opt)
               ELSE raw]

(***************************************************************************)
(* parse_output: the solution, or a Warning with the solver's message.     *)
(***************************************************************************)
\* A slip: status 4 taken for a failure.
ParseOutputUpTo3(out) ==
    [raised |-> out.ier \notin {1, 2, 3},
     x |-> out.x,
     warning |-> [type |-> "Warning",
                  text |-> <<"A solution was not found. Message:", out.mesg>>]]

ParseOutput(out) ==
    [raised |-> out.ier \notin {1, 2, 3, 4},
     x |-> out.x,
     warning |-> [type |-> "Warning",
                  text |-> <<"A solution was not found. Message:", out.mesg>>]]

\* A slip: the labels of guess_params are never looked at.
ParamIndexArange(gp) == [i \in 1..Len(gp.values) |-> IntLabel(i - 1)]

\* The try/except of fit and bound_fit: guess_params.index when it is an
\* Index, np.arange(len(guess_params)) otherwise.
ParamIndex(gp) ==
    LET has_index == gp.kind \in {"Series", "list"}
        is_Index == gp.kind = "Series"
    IN  IF has_index /\ is_Index THEN gp.index
        ELSE [i \in 1..Len(gp.values) |-> IntLabel(i - 1)]

\* fits.T: a row for each column stored in fits, a column for each label of
\* param_index.
Transposed(fs, pindex) ==
    [index |-> [k \in 1..Len(fs) |-> fs[k].col],
     columns |-> pindex,
     values |-> [k \in 1..Len(fs) |-> fs[k].params]]

\* stats.linregress(x, y): the slope and the intercept of least squares.
LinRegress(xs, ys) ==
    LET n == Num(Len(xs))
        Sx == SeqSum(xs)
        Sy == SeqSum(ys)
        Sxy == SeqSum([i \in 1..Len(xs) |-> Mul(xs[i], ys[i])])
        Sxx == SeqSum([i \in 1..Len(xs) |-> Mul(xs[i], xs[i])])
        slope == Div(Sub(Mul(n, Sxy), Mul(Sx, Sy)), Sub(Mul(n, Sxx), Mul(Sx, Sx)))
    IN  [slope |-> slope, intercept |-> Div(Sub(Sy, Mul(slope, Sx)), n)]

\* One column of fit_powerlaw: Series([slope, np.exp(intercept)], index=['A', 'n'])
PowerlawSeries(reg) ==
    [index |-> <<StrLabel("A"), StrLabel("n")>>,
     values |-> <<reg.slope, Exp(reg.intercept)>>]

\* pd.concat(fits, axis=1, keys=data.columns): the Series side by side.
Concat(series, keys) ==
    [index |-> series[1].index,
     columns |-> keys,
     values |-> [i \in 1..Len(series[1].index) |->
                    [c \in 1..Len(series) |-> series[c].values[i]]]]

(***************************************************************************)
(* The solver: scipy.optimize.leastsq(err, x0, full_output=True).          *)
(***************************************************************************)
Mesg(ier) == [leastsq_message |-> ier]

\* What leastsq may return for n parameters and a residual vector of m
\* entries: a vector of n parameters, a status (1 to 4 when a stopping
\* criterion was met) and the message of that status.  With fewer residuals
\* than parameters MINPACK answers 0, improper input parameters.
SolverOutputs(n, m) ==
    { [x |-> x, ier |-> ier, mesg |-> Mesg(ier)] :
        x \in Grid(n), ier \in IF m < n THEN {0} ELSE 0..MaxIer }

None == [none |-> TRUE]

(***************************************************************************)
(* The state.                                                              *)
(***************************************************************************)
VARIABLES
    use_inf_as_null,  \* the pandas option, process-wide
    input,            \* the caller's data
    pc,               \* idle, loop, solving, returned, raised
    call,             \* the running (or last) call's name and arguments
    option_before,    \* the option's value when the call was entered
    data,             \* the rows data.dropna() kept, in order
    param_index,      \* the labels of the parameters
    fits,             \* the columns stored in fits so far
    col,              \* the position of the for loop in the columns
    x0,               \* the vector leastsq was started from
    probe,            \* the solver's last evaluation of err
    output,           \* what leastsq returned last
    best_params,      \* what parse_output returned last
    trace,            \* the calls made for the columns, in order
    error,            \* the exception the call raised
    result,           \* the table the call returned
    whole             \* a finished fit of the whole table, when fit is
                      \* called again on one of its columns

vars == <<use_inf_as_null, input, pc, call, option_before, data, param_index,
          fits, col, x0, probe, output, best_params, trace, error, result,
          whole>>

Event(op, c, d, arg, ret) ==
    [op |-> op, col |-> c, d |-> d, arg |-> arg, ret |-> ret]

Init ==
    /\ use_inf_as_null \in BOOLEAN
    /\ input \in Inputs
    /\ pc = "idle"
    /\ call = None
    /\ option_before = use_inf_as_null
    /\ data = <<>>
    /\ param_index = <<>>
    /\ fits = <<>>
    /\ col = 0
    /\ x0 = <<>>
    /\ probe = None
    /\ output = None
    /\ best_params = None
    /\ trace = <<>>
    /\ error = None
    /\ result = None
    /\ whole = None

(***************************************************************************)
(* fit and bound_fit, lines 59-70 and 137-148: set the option, drop the    *)
(* rows with a null, find the parameter index, start with an empty fits.   *)
(***************************************************************************)
OptionDefault == FALSE

Enter(name, gp, lr, ex, tab) ==
    /\ use_inf_as_null' = TRUE
    /\ option_before' = use_inf_as_null
    /\ call' = [name |-> name, guess_params |-> gp, log_residual |-> lr,
                exog_columns |-> ex]
    /\ data' = DropNa(tab, use_inf_as_null')
    /\ param_index' = ParamIndex(gp)
    /\ fits' = <<>>
    /\ col' = 1
    /\ pc' = "loop"
    /\ x0' = <<>>
    /\ probe' = None
    /\ output' = None
    /\ best_params' = None
    /\ trace' = <<>>
    /\ error' = None
    /\ result' = None

FitCall ==
    /\ pc = "idle"
    /\ \E gp \in Guesses, lr \in BOOLEAN, ex \in BOOLEAN :
          Enter("fit", gp, lr, ex, input)
    /\ UNCHANGED <<input, whole>>

BoundFitCall ==
    /\ pc = "idle"
    /\ \E gp \in Guesses, lr \in BOOLEAN, ex \in BOOLEAN :
          Enter("bound_fit", gp, lr, ex, input)
    /\ UNCHANGED <<input, whole>>

(***************************************************************************)
(* The body of the for loop up to the call of leastsq.                     *)
(***************************************************************************)
\* A slip: the solver is started from the column before's solution.
WarmStart(gp, fs) == IF fs = <<>> THEN gp.values ELSE fs[Len(fs)].params

\* optimize.leastsq(err, guess_params, ...): every column starts from the guess.
FitStartVector(gp, fs) == gp.values

FitStart ==
    /\ pc = "loop"
    /\ call.name = "fit"
    /\ col <= input.ncols
    /\ x0' = FitStartVector(call.guess_params, fits)
    /\ trace' = Append(trace, Event("leastsq", col, <<>>, x0', <<>>))
    /\ pc' = "solving"
    /\ probe' = None
    /\ output' = None
    /\ best_params' = None
    /\ UNCHANGED <<use_inf_as_null, input, call, option_before, data,
                   param_index, fits, col, error, result, whole>>

BoundFitStart ==
    /\ pc = "loop"
    /\ call.name = "bound_fit"
    /\ col <= input.ncols
    /\ LET d == Column(input, data, col)
           ut_guess_params == Untransform(d, call.guess_params.values)
       IN  /\ x0' = ut_guess_params
           /\ trace' = trace \o
                <<Event("untransform", col, d, call.guess_params.values,
                        ut_guess_params),
                  Event("leastsq", col, <<>>, ut_guess_params, <<>>)>>
    /\ pc' = "solving"
    /\ probe' = None
    /\ output' = None
    /\ best_params' = None
    /\ UNCHANGED <<use_inf_as_null, input, call, option_before, data,
                   param_index, fits, col, error, result, whole>>

(***************************************************************************)
(* The solver evaluates err at a parameter vector of its choice.           *)
(***************************************************************************)
Probe(params, r) ==
    [col |-> col, params |-> params, rows |-> r.rows, raw |-> r.raw, e |-> r.e]

FitEval ==
    /\ pc = "solving"
    /\ call.name = "fit"
    /\ \E params \in Grid(Len(x0)) :
          probe' = Probe(params,
                         FitErr(input, data, col, params, call.log_residual,
                                call.exog_columns, use_inf_as_null))
    /\ UNCHANGED <<use_inf_as_null, input, pc, call, option_before, data,
                   param_index, fits, col, x0, output, best_params, trace,
                   error, result, whole>>

BoundFitEval ==
    /\ pc = "solving"
    /\ call.name = "bound_fit"
    /\ \E params \in Grid(Len(x0)) :
          probe' = Probe(params,
                         BoundFitErr(input, data, col, params,
                                     call.log_residual, call.exog_columns,
                                     use_inf_as_null))
    /\ UNCHANGED <<use_inf_as_null, input, pc, call, option_before, data,
                   param_index, fits, col, x0, output, best_params, trace,
                   error, result, whole>>

(***************************************************************************)
(* The solver is a function: started again from the same vector on the     *)
(* same residual function, it returns what it returned before.             *)
(***************************************************************************)
SolverKey(tab, rows, c, cl, start) ==
    [start |-> start,
     err |-> [params \in Grid(Len(start)) |->
                FitErr(tab, rows, c, params, cl.log_residual,
                       cl.exog_columns, TRUE).e]]

SameAsBefore(out) ==
    IF whole = None THEN TRUE
    ELSE IF SolverKey(input, data, col, call, x0)
              # SolverKey(whole.input, whole.data, whole.c, whole.call,
                          whole.start)
         THEN TRUE
         ELSE out.x = whole.row /\ out.ier \in {1, 2, 3, 4}

(***************************************************************************)
(* leastsq returns; parse_output; the column is stored in fits.            *)
(***************************************************************************)
\* A slip: the Warning is caught and the loop goes on with the next column.
SkipColumn(warning) ==
    /\ pc' = "loop"
    /\ error' = None
    /\ best_params' = None
    /\ col' = col + 1
    /\ UNCHANGED fits

\* The Warning parse_output raises is caught nowhere: it leaves the call.
Propagate(warning) ==
    /\ pc' = "raised"
    /\ error' = warning
    /\ best_params' = None
    /\ UNCHANGED <<fits, col>>

\* A slip: the solver's own solution is stored.
StoredRaw(t_best_params, ut_best_params) == ut_best_params

\* fits[col] = Series(t_best_params, index=param_index) of bound_fit
Stored(t_best_params, ut_best_params) == t_best_params

FitSolved ==
    /\ pc = "solving"
    /\ call.name = "fit"
    /\ \E out \in SolverOutputs(Len(x0), Len(data)) :
          /\ SameAsBefore(out)
          /\ output' = out
          /\ trace' = Append(trace, Event("leastsq_ret", col, <<>>, x0, out.x))
          /\ LET parsed == ParseOutput(out)
             IN  IF parsed.raised
                 THEN Propagate(parsed.warning)
                 ELSE /\ best_params' = parsed.x
                      /\ fits' = Append(fits, [col |-> input.columns[col],
                                               params |-> best_params'])
                      /\ col' = col + 1
                      /\ pc' = "loop"
                      /\ UNCHANGED error
    /\ probe' = None
    /\ UNCHANGED <<use_inf_as_null, input, call, option_before, data,
                   param_index, x0, result, whole>>

BoundFitSolved ==
    /\ pc = "solving"
    /\ call.name = "bound_fit"
    /\ \E out \in SolverOutputs(Len(x0), Len(data)) :
          /\ output' = out
          /\ LET parsed == ParseOutput(out)
                 d == Column(input, data, col)
                 returned == Event("leastsq_ret", col, <<>>, x0, out.x)
             IN  IF parsed.raised
                 THEN /\ Propagate(parsed.warning)
                      /\ trace' = Append(trace, returned)
                 ELSE /\ best_params' = parsed.x
                      /\ LET t_best_params == Transform(d, best_params')
                         IN  /\ trace' = trace \o
                                   <<returned,
                                     Event("transform", col, d, best_params',
                                           t_best_params)>>
                             /\ fits' = Append(fits,
                                               [col |-> input.columns[col],
                                                params |-> Stored(t_best_params,
                                                                  best_params')])
                      /\ col' = col + 1
                      /\ pc' = "loop"
                      /\ UNCHANGED error
    /\ probe' = None
    /\ UNCHANGED <<use_inf_as_null, input, call, option_before, data,
                   param_index, x0, result, whole>>

(***************************************************************************)
(* After the last column: reset the option and return fits.T.              *)
(***************************************************************************)
FitReturn ==
    /\ pc = "loop"
    /\ call.name = "fit"
    /\ col > input.ncols
    /\ use_inf_as_null' = OptionDefault
    /\ result' = Transposed(fits, param_index)
    /\ pc' = "returned"
    /\ probe' = None
    /\ output' = None
    /\ best_params' = None
    /\ UNCHANGED <<input, call, option_before, data, param_index, fits, col,
                   x0, trace, error, whole>>

BoundFitReturn ==
    /\ pc = "loop"
    /\ call.name = "bound_fit"
    /\ col > input.ncols
    /\ use_inf_as_null' = OptionDefault
    /\ result' = Transposed(fits, param_index)
    /\ pc' = "returned"
    /\ probe' = None
    /\ output' = None
    /\ best_params' = None
    /\ UNCHANGED <<input, call, option_before, data, param_index, fits, col,
                   x0, trace, error, whole>>

(***************************************************************************)
(* fit_powerlaw: a linear regression per column, no solver.                *)
(***************************************************************************)
AllRows(tab) == [r \in 1..tab.nrows |-> r]

Powerlaw(tab) ==
    Concat([c \in 1..tab.ncols |->
               PowerlawSeries(LinRegress(DataIndex(AllRows(tab)),
                                         Column(tab, AllRows(tab), c)))],
           tab.columns)

FitPowerlaw ==
    /\ pc = "idle"
    /\ call' = [name |-> "fit_powerlaw"]
    /\ option_before' = use_inf_as_null
    /\ result' = Powerlaw(input)
    /\ pc' = "returned"
    /\ UNCHANGED <<use_inf_as_null, input, data, param_index, fits, col, x0,
                   probe, output, best_params, trace, error, whole>>

(***************************************************************************)
(* The caller, with the table of a fit of several columns in hand, calls   *)
(* fit on the single column c of the same data with the same arguments.    *)
(***************************************************************************)
FitColumnAgain ==
    /\ pc = "returned"
    /\ call.name = "fit"
    /\ whole = None
    /\ ~input.series
    /\ \E c \in 1..input.ncols :
          /\ whole' = [input |-> input, data |-> data, call |-> call,
                       c |-> c, row |-> result.values[c],
                       start |-> SelectSeq(trace, LAMBDA ev : ev.col = c)[1].arg]
          /\ input' = OneColumn(input, c)
          /\ Enter("fit", call.guess_params, call.log_residual,
                   call.exog_columns, input')

Next ==
    \/ FitCall
    \/ FitStart
    \/ FitEval
    \/ FitSolved
    \/ FitReturn
    \/ BoundFitCall
    \/ BoundFitStart
    \/ BoundFitEval
    \/ BoundFitSolved
    \/ BoundFitReturn
    \/ FitPowerlaw

Spec == Init /\ [][Next]_vars

(***************************************************************************)
(* A fit of a table followed by a fit of one of its columns, from the      *)
(* option's default.                                                       *)
(***************************************************************************)
InitAgain == Init /\ use_inf_as_null = OptionDefault

NextAgain ==
    \/ FitCall
    \/ FitStart
    \/ FitSolved
    \/ FitReturn
    \/ FitColumnAgain

SpecAgain == InitAgain /\ [][NextAgain]_vars

(***************************************************************************)
(* The claims.                                                             *)
(***************************************************************************)
Success == {1, 2, 3, 4}

Range(seq) == { seq[i] : i \in 1..Len(seq) }

Fitting == call # None /\ call.name \in {"fit", "bound_fit"}

\* C1: parse_output hands back the solver's solution, unchanged, exactly
\* when the status is 1, 2, 3 or 4; for any other status it raises an error
\* that carries the solver's message, and hands back no parameter vector.
C1_ParseOutput ==
    output # None =>
        IF output.ier \in Success
        THEN error = None /\ best_params = output.x
        ELSE /\ error # None
             /\ error.text[2] = output.mesg
             /\ best_params = None

C1_Witness ==
    /\ output # None
    /\ output.ier = 5
    /\ best_params = None
    /\ error.text[2] = Mesg(5)

\* C2: when the solver reports a failure for a column, the call raises and
\* returns no table: what the earlier columns gave stays in fits, unreturned;
\* the solver was called once for each column up to the failing one and for
\* no later one; and the call does nothing more.
SolverCalls == SelectSeq(trace, LAMBDA ev : ev.op = "leastsq")

C2_FailureAborts ==
    /\ (output # None /\ output.ier \notin Success) => pc = "raised"
    /\ pc = "raised" =>
          /\ Fitting
          /\ error.type = "Warning"
          /\ result = None
          /\ Len(fits) = col - 1
          /\ [i \in 1..Len(SolverCalls) |-> SolverCalls[i].col] = [i \in 1..col |-> i]
          /\ ~ENABLED Next

C2_Witness ==
    /\ pc = "raised"
    /\ input.ncols >= 2
    /\ col = 2
    /\ Len(fits) = 1
    /\ result = None

\* C3: in the table of fit_powerlaw, for every column, the entry labelled
\* 'n' is the slope and the entry labelled 'A' is exp(intercept) of the
\* linear regression of the column's values on the index values.
LabelPos(labels, label) == CHOOSE i \in 1..Len(labels) : labels[i] = label

\* The entry of a table for a parameter label and a data column, whichever
\* way round the table is.
Entry(tab, param, column) ==
    IF param \in Range(tab.index)
    THEN tab.values[LabelPos(tab.index, param)][LabelPos(tab.columns, column)]
    ELSE tab.values[LabelPos(tab.index, column)][LabelPos(tab.columns, param)]

Regression(c) ==
    LinRegress(DataIndex(AllRows(input)), Column(input, AllRows(input), c))

C3_PowerlawLabels ==
    (pc = "returned" /\ call.name = "fit_powerlaw") =>
        \A c \in 1..input.ncols :
            /\ Entry(result, StrLabel("n"), input.columns[c]) = Regression(c).slope
            /\ Entry(result, StrLabel("A"), input.columns[c])
                 = Exp(Regression(c).intercept)

\* C4: in the residual vector the solver is handed, a position where the
\* raw residual is NaN or infinite holds 0 in fit and twice the mean of the
\* valid raw residuals in bound_fit, a valid position holds the raw residual,
\* and there is one slot per row kept; for every log_residual, exog_columns.
Invalid(v) == v.k # "num"

TwiceMeanOfValid(raw) ==
    LET valid == SelectSeq(raw, LAMBDA v : ~Invalid(v))
    IN  IF valid = <<>> THEN NaN
        ELSE Div(Mul(Num(2), SeqSum(valid)), Num(Len(valid)))

C4_Masking ==
    probe # None =>
        /\ Len(probe.e) = Len(data)
        /\ \A i \in 1..Len(probe.raw) :
              IF Invalid(probe.raw[i])
              THEN probe.e[i] = IF call.name = "fit" THEN Num(0)
                                ELSE TwiceMeanOfValid(probe.raw)
              ELSE probe.e[i] = probe.raw[i]

\* C5: in bound_fit, for every column: untransform is called with the
\* column's data and the caller's guess; the solver is started from what
\* untransform returned; transform is called only after the solver has
\* succeeded, with the column's data and the solver's solution; and what is
\* stored for the column is what transform returned.
C5_BoundFitOrder ==
    (call # None /\ call.name = "bound_fit") =>
        /\ \A i \in 1..Len(trace) :
              LET ev == trace[i]
              IN  CASE ev.op = "untransform" ->
                         /\ ev.arg = call.guess_params.values
                         /\ ev.d = Column(input, data, ev.col)
                         /\ IF i = 1 THEN ev.col = 1
                            ELSE /\ trace[i - 1].op = "transform"
                                 /\ trace[i - 1].col = ev.col - 1
                    [] ev.op = "leastsq" ->
                         /\ i > 1
                         /\ trace[i - 1].op = "untransform"
                         /\ trace[i - 1].col = ev.col
                         /\ ev.arg = trace[i - 1].ret
                    [] ev.op = "leastsq_ret" ->
                         /\ i > 1
                         /\ trace[i - 1].op = "leastsq"
                         /\ trace[i - 1].col = ev.col
                    [] OTHER ->
                         /\ i > 1
                         /\ trace[i - 1].op = "leastsq_ret"
                         /\ trace[i - 1].col = ev.col
                         /\ ev.arg = trace[i - 1].ret
                         /\ ev.d = Column(input, data, ev.col)
                         /\ ev.col <= Len(fits)
                         /\ fits[ev.col].params = ev.ret
        /\ \A k \in 1..Len(fits) :
              \E i \in 1..Len(trace) :
                  trace[i].op = "transform" /\ trace[i].col = k
        /\ output # None =>
              (trace[Len(trace)].op = "transform" <=> output.ier \in Success)
        /\ pc = "solving" =>
              (trace[Len(trace)].op = "leastsq" /\ trace[Len(trace)].arg = x0)

C5_Witness ==
    /\ call # None
    /\ call.name = "bound_fit"
    /\ Len(fits) = 2
    /\ Len(trace) = 8
    /\ trace[5].op = "untransform"
    /\ trace[5].arg = call.guess_params.values
    /\ trace[5].arg # trace[4].ret
    /\ trace[8].op = "transform"
    /\ trace[8].ret # trace[8].arg
    /\ fits[2].params = trace[8].ret

\* C6: the table of fit and bound_fit has the labels of guess_params as its
\* columns, in their order, when guess_params has an Index; it has 0..n-1
\* for n guess parameters when guess_params has no labels or its .index is
\* no Index; and the only error a call raises is the solver's failure.
C6_ParamLabels ==
    Fitting =>
        /\ pc = "returned" =>
              result.columns =
                 IF call.guess_params.kind = "Series"
                 THEN call.guess_params.index
                 ELSE [i \in 1..Len(call.guess_params.values) |-> IntLabel(i - 1)]
        /\ error # None => (output # None /\ output.ier \notin Success)

C6_Witness ==
    /\ Fitting
    /\ pc = "returned"
    /\ call.guess_params.kind = "Series"
    /\ result.columns = <<StrLabel("scale"), StrLabel("rate")>>

\* C7: a returned table has one row per column of the data, and one column
\* per parameter: the guess parameters in fit and bound_fit, A and n in
\* fit_powerlaw.
NParams ==
    IF call.name = "fit_powerlaw" THEN 2 ELSE Len(call.guess_params.values)

C7_TableShape ==
    pc = "returned" =>
        /\ result.index = input.columns
        /\ Len(result.columns) = NParams
        /\ \A k \in 1..Len(result.values) : Len(result.values[k]) = NParams

\* C8: a row with a missing value in any column is left out of the fit of
\* every column: the model function is not evaluated at it and the residual
\* vector has no slot for it.
IncompleteRows ==
    { r \in 1..input.nrows :
        \E c \in 1..input.ncols : Invalid(input.cell[<<r, c>>]) }

C8_GlobalDropna ==
    probe # None =>
        /\ Range(probe.rows) \cap IncompleteRows = {}
        /\ Len(probe.raw) = Len(probe.rows)
        /\ Len(probe.e) = Len(probe.rows)

C8_Witness ==
    /\ probe # None
    /\ \E r \in IncompleteRows :
          /\ ~Invalid(input.cell[<<r, probe.col>>])
          /\ r \notin Range(probe.rows)
    /\ Len(probe.e) = input.nrows - 1
    /\ Len(probe.e) >= 1

\* C9, as claimed: fit on the single-column table of column c returns the
\* parameters of the row for c in the table fit returned for the whole table.
C9_ColumnIndependence ==
    (whole # None /\ pc \in {"returned", "raised"}) =>
        /\ pc = "returned"
        /\ result.values[1] = whole.row

\* C9, amended: when fit returned a table for the whole table, and no row
\* that has a value for c is missing a value (NaN or infinite) in another
\* column, fit on the single-column table of c returns a table whose one
\* row, labelled c, holds the parameters of the row for c.
CompleteWhere(tab, c) ==
    \A r \in 1..tab.nrows :
        ~Invalid(tab.cell[<<r, c>>]) =>
            \A c2 \in 1..tab.ncols : ~Invalid(tab.cell[<<r, c2>>])

C9_ColumnIndependenceComplete ==
    (/\ whole # None
     /\ pc \in {"returned", "raised"}
     /\ CompleteWhere(whole.input, whole.c)) =>
        /\ pc = "returned"
        /\ result.index = <<whole.input.columns[whole.c]>>
        /\ result.values[1] = whole.row

C9_Witness ==
    /\ whole # None
    /\ pc = "returned"
    /\ whole.input.ncols = 2
    /\ whole.c = 2
    /\ \E r \in 1..whole.input.nrows : Invalid(whole.input.cell[<<r, 2>>])
    /\ result.values[1] = whole.row

\* C10: when a call of fit or bound_fit has returned or raised, the option
\* use_inf_as_null has the value it had when the call was entered.
C10_OptionRestored ==
    (Fitting /\ pc \in {"returned", "raised"}) => use_inf_as_null = option_before

=============================================================================
